---- MODULE Spec2Model ----
(***************************************************************************)
(* The firecracker hypervisor controller of virtcontainers/fc.go: the      *)
(* three-state vmm state machine, the pending-device queue, the boot       *)
(* configuration builder, the path jailer, the disk pool and block         *)
(* hotplug, together with the part of the environment they act on (bind    *)
(* mounts under the jailer root, the spawned VMM and its drive table).     *)
(***************************************************************************)
EXTENDS Integers, Sequences, FiniteSets, Bags, TLC

VARIABLES
    state,           \* fc.state.state
    pendingDevices,  \* fc.pendingDevices
    fcConfig,        \* fc.fcConfig
    jailed,          \* fc.jailed
    info,            \* fc.info (PID, Version)
    connection,      \* fc.connection # nil
    config,          \* fc.config (JailerPath)
    pc,              \* position of the caller inside startSandbox, or "idle"
    drainIdx,        \* range index of the drain loop of fcInitConfiguration
    drainLen,        \* length of the slice the drain loop ranges over
    drainFrom,       \* lengths of Drives/NetworkInterfaces when the drain began
    applied,         \* per queue entry, how often the drain handed it to the builder
    configFile,      \* content of the file at fc.fcConfigPath
    mounts,          \* bag of bind-mount targets on the host
    vmm,             \* the spawned VMM process: pid, alive, drive table
    lastApi,         \* the last call made through fc.client()
    sawRunning,      \* DescribeInstance answered Running for the current child
    last,            \* the last operation that returned: name, argument, error
    nStart, nAdd, nHot,  \* operations called so far
    vmDir,           \* <vmPath> exists on the host
    nClean,          \* calls of cleanup so far
    nStop,           \* calls of stopSandbox so far
    end,             \* the current fcEnd: seconds since tInit, signals sent
    sinceStart,      \* seconds since timeStart of waitVMMRunning
    sandbox,         \* what createSandbox stored: fc.id, fc.vmPath, fc.socketPath, as strings
    fcKernelParams,  \* the package-level kernel parameter list
    versionOutput,   \* what <HypervisorPath> --version prints
    adders,          \* the addDevice calls of concurrent callers
    nFault           \* failures of the environment so far

vars == <<adders, versionOutput, fcKernelParams, state, pendingDevices,
          fcConfig, jailed, info, connection, config, pc, drainIdx, drainLen,
          drainFrom, applied, configFile, mounts,
          vmm, lastApi, sawRunning, last, nStart, nAdd, nHot, vmDir, nClean,
          nStop, end, sinceStart, sandbox, nFault>>

----------------------------------------------------------------------------
(* Bounds of the model *)

MaxStarts == 2
MaxAdds == 2
MaxHotplugs == 2
MaxFaults == 1
MaxStops == 2
\* longest sandbox id and longest name of the hypervisor binary tried
MaxIdLen == 33
MaxNameLen == 40
\* calls of the orchestrator and failed calls into the environment, together
MaxOps == 4

----------------------------------------------------------------------------
(* Constants of the program *)

notReady == 0
cfReady == 1
vmReady == 2

fcDiskPoolSize == 8
fcStopSandboxTimeout == 15
fcTimeout == 10
fcSocket == "firecracker.socket"
storagePathSuffix == "vc"

fcKernel == "vmlinux"
fcRootfs == "rootfs"
fcLogFifo == "logs.fifo"
fcMetricsFifo == "metrics.fifo"
defaultFcConfig == "fcConfig.json"
defaultHybridVSocketName == "kata.hvsock"

----------------------------------------------------------------------------
(* Paths.  A path is the sequence of its components; an absolute path       *)
(* starts with the component "/", the empty string is the empty sequence.   *)

EmptyPath == <<>>
RootDir == <<"/">>

\* filepath.Join(p, name) for a single-component name
Join(p, name) == IF name = "" THEN p ELSE Append(p, name)

IsAbs(p) == Len(p) > 0 /\ p[1] = "/"

\* strings.HasPrefix on whole components
HasPathPrefix(p, q) == Len(q) <= Len(p) /\ SubSeq(p, 1, Len(q)) = q

chrootBaseDir == <<"/", "run", "vc">>
vmPath == Join(Join(chrootBaseDir, "firecracker"), "sb")
jailerRoot == Join(vmPath, "root")

\* a drive id built from an index one too high
fcDriveIndexToIDNext(i) == "drive_" \o ToString(i + 1)

fcDriveIndexToID(i) == "drive_" \o ToString(i)

----------------------------------------------------------------------------
(* Devices handed to addDevice and to the hotplug operations *)

Endpoint(name) == [type |-> "Endpoint", Name |-> name]
BlockDrive(ID, File, Index) ==
    [type |-> "BlockDrive", ID |-> ID, File |-> File, Index |-> Index]
HybridVSock(UdsPath) == [type |-> "HybridVSock", UdsPath |-> UdsPath]
UnknownDevice == [type |-> "Unknown"]
NoDevice == [type |-> "none"]

\* the deviceType the caller passes along with the payload
DevTypeOf(d) ==
    CASE d.type = "Endpoint" -> "netDev"
      [] d.type = "BlockDrive" -> "blockDev"
      [] d.type = "HybridVSock" -> "hybridVirtioVsockDev"
      [] OTHER -> "unknownDev"

HostFile == <<"/", "host", "data.img">>

\* the output of a command: what it wrote, and whether running it failed
Output(data, failed) == [data |-> data, failed |-> failed]

\* generateSocket: the uds path the caller passes with the hybrid vsock
generateSocket == HybridVSock(Join(jailerRoot, defaultHybridVSocketName))

\* payloads the orchestrator offers to its k-th call of addDevice: a fresh
\* endpoint, a fresh block drive with or without a backing file, the hybrid
\* vsock, a payload of a type addDevice does not know
Devices(k) ==
    { Endpoint("eth" \o ToString(k)),
      BlockDrive("blk" \o ToString(k), HostFile, k),
      BlockDrive("blk" \o ToString(k), EmptyPath, k),
      generateSocket, UnknownDevice }

----------------------------------------------------------------------------
(* Path jailer *)

\* fcJailResource rejects empty locations
fcJailResourceInvalid(src, dst) == src = EmptyPath \/ dst = ""

\* host side target of the bind mount made by fcJailResource
jailedLocation(dst) == Join(jailerRoot, dst)

\* the path fcJailResource returns once the bind mount succeeded
fcJailResource(dst) ==
    IF ~jailed THEN jailedLocation(dst) ELSE Join(RootDir, dst)

\* the path createJailedDrive returns once the raw file was created
createJailedDrive(name) ==
    IF jailed THEN Join(RootDir, name) ELSE Join(jailerRoot, name)

bindMount(mnts, target) == mnts (+) SetToBag({target})

\* syscall.Unmount(hostPath, MNT_DETACH): detaches the topmost mount, an
\* error (nothing mounted there) is logged and ignored
umountResource(mnts, jailedPath) ==
    LET hostPath == Join(jailerRoot, jailedPath)
    IN  IF BagIn(hostPath, mnts) THEN mnts (-) SetToBag({hostPath}) ELSE mnts

----------------------------------------------------------------------------
(* Boot configuration builder.  Each operator gives the configuration       *)
(* record after the call, from the record cfg before it.                    *)

EmptyConfig ==
    [ MachineConfig |-> <<>>, BootSource |-> <<>>, Drives |-> <<>>,
      Vsock |-> <<>>, NetworkInterfaces |-> <<>>, Logger |-> <<>> ]

Drive(id, readOnly, path) ==
    [DriveID |-> id, IsReadOnly |-> readOnly, IsRootDevice |-> FALSE,
     PathOnHost |-> path]

fcSetVMBaseConfig(cfg) ==
    [cfg EXCEPT !.MachineConfig = <<[HtEnabled |-> FALSE]>>]

\* a kernel parameter
Param(key, value) == [Key |-> key, Value |-> value]

\* the root parameters of a virtio-blk root device (declared outside fc.go)
commonVirtioblkKernelRootParams ==
    << Param("root", "/dev/vda1"),
       Param("rootflags", "data=ordered,errors=remount-ro ro"),
       Param("rootfstype", "ext4") >>

\* the value the package-level list is initialised with
baseKernelParams ==
    commonVirtioblkKernelRootParams \o
    << Param("pci", "off"), Param("reboot", "k"), Param("panic", "1"),
       Param("iommu", "off"), Param("net.ifnames", "0"),
       Param("random.trust_cpu", "on"), Param("acpi", "off") >>

\* what fcInitConfiguration appends to the list: the serial console for a
\* stateful debug sandbox, otherwise no UARTs and the agent's log port
modeParams(debug, isStateful) ==
    IF debug /\ isStateful THEN << Param("console", "ttyS0") >>
    ELSE << Param("8250.nr_uarts", "0"),
            Param("agent.log_vport", "vSockLogsPort") >>

\* SerializeParams(params, "="): one key=value string per parameter
SerializeParams(params) ==
    [ i \in 1..Len(params) |-> params[i].Key \o "=" \o params[i].Value ]

\* strings.Join
RECURSIVE stringsJoin(_, _)
stringsJoin(elems, sep) ==
    IF elems = <<>> THEN ""
    ELSE IF Len(elems) = 1 THEN elems[1]
    ELSE elems[1] \o sep \o stringsJoin(Tail(elems), sep)

\* the boot arguments built from the caller's parameters and the list
formattedParams(kernelParams, list) ==
    stringsJoin(SerializeParams(kernelParams \o list), " ")

fcSetBootSource(cfg, params) ==
    [cfg EXCEPT !.BootSource = <<[KernelImagePath |-> fcJailResource(fcKernel),
                                  BootArgs |-> params]>>]

fcSetVMRootfs(cfg) ==
    [cfg EXCEPT !.Drives = Append(@, Drive("rootfs", TRUE, fcJailResource(fcRootfs)))]

\* the first n iterations of the loop of createDiskPool
RECURSIVE createDiskPool(_, _)
createDiskPool(cfg, n) ==
    IF n = 0 THEN cfg
    ELSE LET c == createDiskPool(cfg, n - 1)
             driveID == fcDriveIndexToID(n - 1)
         IN  [c EXCEPT !.Drives =
                 Append(@, Drive(driveID, FALSE, createJailedDrive(driveID)))]

fcSetLogger(cfg) ==
    [cfg EXCEPT !.Logger = <<[LogFifo |-> fcJailResource(fcLogFifo),
                              MetricsFifo |-> fcJailResource(fcMetricsFifo)]>>]

fcAddVsock(cfg, hvs) ==
    LET udsPath == IF jailed THEN Join(RootDir, defaultHybridVSocketName)
                   ELSE hvs.UdsPath
    IN  [cfg EXCEPT !.Vsock = <<[GuestCid |-> 3, UdsPath |-> udsPath,
                                 VsockID |-> "root"]>>]

fcAddNetDevice(cfg, endpoint) ==
    [cfg EXCEPT !.NetworkInterfaces =
        Append(@, [IfaceID |-> endpoint.Name, AllowMmdsRequests |-> FALSE])]

\* fcAddBlockDrive once fcJailResource succeeded
fcAddBlockDrive(cfg, drive) ==
    [cfg EXCEPT !.Drives =
        Append(@, Drive(drive.ID, FALSE, fcJailResource(drive.ID)))]

\* a builder that never fails
fcAddBlockDriveNoErr(drive, mountOk) == ""

\* error of fcAddBlockDrive: "" is nil
fcAddBlockDriveErr(drive, mountOk) ==
    IF fcJailResourceInvalid(drive.File, drive.ID) THEN "invalid jail locations"
    ELSE IF ~mountOk THEN "bindMount failed"
    ELSE ""

\* the payload types the switch of addDevice hands to a builder function
Known(d) == d.type \in {"Endpoint", "BlockDrive", "HybridVSock"}

\* addDevice reaches the bind mount of fcJailResource for this payload
TriesMount(d) ==
    /\ state # notReady
    /\ d.type = "BlockDrive"
    /\ ~fcJailResourceInvalid(d.File, d.ID)

----------------------------------------------------------------------------
(* addDevice: the effect of one call in the current state, as the record of *)
(* the queue, the configuration and the mounts after it and its error.      *)

\* addDevice without the test of the state: it queues whatever the state is
addDeviceAlwaysQueues(d, mountOk) ==
    [ pendingDevices |->
          Append(pendingDevices, [dev |-> d, devType |-> DevTypeOf(d)]),
      fcConfig |-> fcConfig, mounts |-> mounts, err |-> "" ]

addDevice(d, mountOk) ==
    IF state = notReady
    THEN [ pendingDevices |->
               Append(pendingDevices, [dev |-> d, devType |-> DevTypeOf(d)]),
           fcConfig |-> fcConfig, mounts |-> mounts, err |-> "" ]
    ELSE CASE d.type = "Endpoint" ->
                [ pendingDevices |-> pendingDevices,
                  fcConfig |-> fcAddNetDevice(fcConfig, d),
                  mounts |-> mounts, err |-> "" ]
           [] d.type = "BlockDrive" ->
                LET err == fcAddBlockDriveErr(d, mountOk)
                IN  [ pendingDevices |-> pendingDevices,
                      fcConfig |-> IF err = "" THEN fcAddBlockDrive(fcConfig, d)
                                   ELSE fcConfig,
                      mounts |-> IF err = ""
                                 THEN bindMount(mounts, jailedLocation(d.ID))
                                 ELSE mounts,
                      err |-> err ]
           [] d.type = "HybridVSock" ->
                [ pendingDevices |-> pendingDevices,
                  fcConfig |-> fcAddVsock(fcConfig, d),
                  mounts |-> mounts, err |-> "" ]
           [] OTHER ->
                [ pendingDevices |-> pendingDevices, fcConfig |-> fcConfig,
                  mounts |-> mounts, err |-> "" ]

----------------------------------------------------------------------------
(* The spawned VMM *)

\* the drive table the VMM builds from the configuration file it is given
GuestDrives(cfg) ==
    [i \in 1..Len(cfg.Drives) |->
        [DriveID |-> cfg.Drives[i].DriveID, PathOnHost |-> cfg.Drives[i].PathOnHost]]

GuestHasDrive(id) == \E i \in 1..Len(vmm.drives) : vmm.drives[i].DriveID = id

\* PATCH /drives/{id}: the VMM repoints the drive
PatchGuestDriveByID(drives, id, path) ==
    [i \in 1..Len(drives) |->
        IF drives[i].DriveID = id THEN [drives[i] EXCEPT !.PathOnHost = path]
        ELSE drives[i]]

\* syscall.Kill(pid, sig): ESRCH when there is no such process; pid 0 names
\* the process group of the caller, which always has a member
Kill(pid) ==
    IF pid = 0 THEN ""
    ELSE IF vmm.alive /\ vmm.pid = pid THEN "" ELSE "ESRCH"

\* fcEnd: SIGTERM, then SIGKILL, to the process fc.info.PID
fcEnd ==
    IF vmm.alive /\ vmm.pid = info.PID THEN [vmm EXCEPT !.alive = FALSE] ELSE vmm

\* the signal fcEnd begins with when the deferred function of startSandbox
\* calls it: syscall.Kill(fc.info.PID, SIGTERM)
deferredFcEnd ==
    [waited |-> 0,
     signals |-> <<[sig |-> "SIGTERM", res |-> Kill(info.PID), at |-> 0]>>]

\* a call made through fc.client(): the operation, its drive id and path,
\* whether the VMM answered Running, and fc.state and fc.jailed at the call
ApiCall(op, id, path, running) ==
    [op |-> op, id |-> id, path |-> path, running |-> running,
     state |-> state, jailed |-> jailed]

----------------------------------------------------------------------------
(* createSandbox.  Here a path is the string the program stores. *)

\* the first n characters of a string without repetitions
IdOfLen(n) == SubSeq("0123456789abcdefghijklmnopqrstuvwxyz", 1, n)

RECURSIVE Repeat(_, _)
Repeat(c, n) == IF n = 0 THEN "" ELSE Repeat(c, n - 1) \o c

\* sandbox ids and hypervisor paths handed to createSandbox
SandboxIDs == { IdOfLen(n) : n \in 0..MaxIdLen }
HypervisorPaths ==
    { "/usr/bin/" \o Repeat("f", n) : n \in 1..MaxNameLen } \cup {"firecracker"}

truncateID(id) == IF Len(id) > 32 THEN SubSeq(id, 1, 32) ELSE id

\* filepath.Base of a path that does not end in a separator
filepathBase(path) ==
    IF path = "" THEN "."
    ELSE LET n == Len(path)
             slashes == { i \in 1..n : SubSeq(path, i, i) = "/" }
         IN  IF slashes = {} THEN path
             ELSE LET k == CHOOSE i \in slashes : \A j \in slashes : j <= i
                  IN  SubSeq(path, k + 1, n)

\* filepath.Join of clean elements: empty elements are dropped
RECURSIVE filepathJoin(_)
filepathJoin(elems) ==
    IF elems = <<>> THEN ""
    ELSE LET rest == filepathJoin(Tail(elems))
         IN  IF Head(elems) = "" THEN rest
             ELSE IF rest = "" THEN Head(elems)
             ELSE Head(elems) \o "/" \o rest

\* the fields createSandbox computes for a sandbox id and a hypervisor path
createSandbox(id, hypervisorPath, stateful) ==
    LET hypervisorName == filepathBase(hypervisorPath)
        base == filepathJoin(<<"/run", storagePathSuffix>>)
        vm == filepathJoin(<<base, hypervisorName, truncateID(id)>>)
        root == filepathJoin(<<vm, "root">>)
    IN  [ given |-> id, hypervisorPath |-> hypervisorPath,
          id |-> truncateID(id), chrootBaseDir |-> base, vmPath |-> vm,
          jailerRoot |-> root, stateful |-> stateful,
          socketPath |-> filepathJoin(<<root, "run", fcSocket>>) ]

----------------------------------------------------------------------------
(* Initial state: the controller after createSandbox *)

JailerPaths == { EmptyPath, <<"/", "usr", "bin", "jailer">> }

Returned(op, arg, err) == [op |-> op, arg |-> arg, err |-> err]

\* the goroutines that call addDevice while other operations run
Adders == {"g1", "g2"}

\* a goroutine that is not inside addDevice
NotCalling == [pc |-> "idle", dev |-> NoDevice, observed |-> notReady,
               seen |-> <<>>, err |-> ""]

\* the fields of the controller createSandbox sets
Created ==
    /\ adders = [g \in Adders |-> NotCalling]
    /\ state = notReady
    /\ pendingDevices = <<>>
    /\ fcConfig = EmptyConfig
    /\ jailed = FALSE
    /\ info = [PID |-> 0, Version |-> ""]
    /\ connection = FALSE
    /\ fcKernelParams = baseKernelParams
    /\ drainIdx = 0
    /\ drainLen = 0
    /\ drainFrom = [Drives |-> 0, NetworkInterfaces |-> 0]
    /\ applied = <<>>
    /\ configFile = EmptyConfig
    /\ mounts = EmptyBag
    /\ vmDir = FALSE
    /\ vmm = [pid |-> 0, alive |-> FALSE, drives |-> <<>>]
    /\ lastApi = [op |-> "none", id |-> "", path |-> EmptyPath,
                  running |-> FALSE, state |-> notReady, jailed |-> FALSE]
    /\ sawRunning = FALSE
    /\ last = Returned("createSandbox", NoDevice, "")
    /\ nStart = 0 /\ nAdd = 0 /\ nHot = 0 /\ nClean = 0 /\ nStop = 0 /\ nFault = 0
    /\ end = [waited |-> 0, signals |-> <<>>]
    /\ sinceStart = 0

Init ==
    /\ Created
    /\ pc = "idle"
    /\ versionOutput = Output("Firecracker v0.21.1\n", FALSE)
    /\ sandbox = createSandbox("sb", "/usr/bin/firecracker", FALSE)
    /\ \E j \in JailerPaths :
          config = [JailerPath |-> j, Debug |-> FALSE, KernelParams |-> <<>>]

controller == <<state, pendingDevices, fcConfig, jailed, info, connection>>

\* fc.state.Lock() of firecrackerState.set: granted when no addDevice holds
\* the read lock
Lock == \A g \in Adders : adders[g].pc # "append"
startup == <<pc, drainIdx, drainLen, drainFrom, configFile>>
\* one counter per entry of the queue
Queued(r) == IF Len(r.pendingDevices) > Len(applied) THEN Append(applied, 0) ELSE applied
environment == <<mounts, vmm, lastApi, sawRunning>>
counters == <<nStart, nAdd, nHot>>

\* calls made by the orchestrator and calls into the environment that failed
Ops == nStart + nAdd + nHot + nClean + nStop + nFault

\* a call into the environment fails only while the fault budget lasts
Fault(failed) ==
    IF failed THEN nFault < MaxFaults /\ Ops < MaxOps /\ nFault' = nFault + 1
    ELSE UNCHANGED nFault

\* the orchestrator makes one more call, in which a call into the environment
\* may fail
Call(failed) == Ops + (IF failed THEN 1 ELSE 0) < MaxOps

\* an operation returns to the caller
Return(op, arg, err) == last' = Returned(op, arg, err)

----------------------------------------------------------------------------
(* addDevice called by the orchestrator *)

AddDevice(d, mountOk) ==
    /\ pc = "idle"
    /\ nAdd < MaxAdds
    /\ Call(~mountOk)
    /\ nAdd' = nAdd + 1
    /\ ~mountOk => TriesMount(d)
    /\ Fault(~mountOk)
    /\ LET r == addDevice(d, mountOk)
       IN  /\ pendingDevices' = r.pendingDevices
           /\ fcConfig' = r.fcConfig
           /\ mounts' = r.mounts
           /\ applied' = Queued(r)
           /\ Return("addDevice", d, r.err)
    /\ UNCHANGED <<adders, versionOutput,
                   fcKernelParams, sandbox, sinceStart, end, nStop, nClean,
                   vmDir, state, jailed, info, connection, config, startup,
                   vmm, lastApi, sawRunning, nStart, nHot>>

(* disconnect *)
Disconnect ==
    /\ pc = "idle"
    /\ Lock
    /\ state' = notReady
    /\ Return("disconnect", NoDevice, "")
    /\ UNCHANGED <<adders, versionOutput, fcKernelParams,
                   sandbox, sinceStart, end, nStop, nClean, vmDir,
                   pendingDevices, fcConfig, jailed, info, connection, config,
                   startup, applied, environment, counters, nFault>>

----------------------------------------------------------------------------
(* startSandbox, one action per step of its body *)

StartSandbox ==
    /\ pc = "idle"
    /\ nStart < MaxStarts
    /\ Call(FALSE)
    /\ nStart' = nStart + 1
    /\ pc' = "fcInitConfiguration"
    /\ UNCHANGED <<adders, versionOutput, fcKernelParams,
                   sandbox, sinceStart, end, nStop, nClean, vmDir,
                   controller, config, drainIdx, drainLen, drainFrom, applied,
                   configFile, environment, last, nAdd, nHot, nFault>>

\* startSandbox returns err to the caller
StartFailed(err) ==
    /\ pc' = "idle"
    /\ Return("startSandbox", NoDevice, err)

\* fcRemountJailerRootWithExec: bind mount of the jailer root onto itself,
\* then the remount without MS_NOEXEC; f names the call that fails
fcRemountJailerRootWithExec(mnts, f) ==
    IF f = "bindMount" THEN mnts ELSE bindMount(mnts, jailerRoot)

\* os.RemoveAll(fc.vmPath) with mnts mounted below it: a mount point cannot
\* be unlinked (EBUSY), the error is logged and the directory stays
RemoveAll(mnts) == mnts # EmptyBag

\* fcInitConfiguration up to the remount of the jailer root
FcInitConfigurationJail(f) ==
    /\ pc = "fcInitConfiguration"
    /\ \/ f \in {"ok", "mkdir"}
       \/ f \in {"bindMount", "remount"} /\ config.JailerPath # EmptyPath
    /\ Fault(f # "ok")
    /\ jailed' = IF f # "mkdir" /\ config.JailerPath # EmptyPath THEN TRUE
                 ELSE jailed
    /\ mounts' = IF f # "mkdir" /\ config.JailerPath # EmptyPath
                 THEN fcRemountJailerRootWithExec(mounts, f) ELSE mounts
    /\ vmDir' = IF f = "mkdir" THEN vmDir ELSE TRUE
    /\ IF f = "ok" THEN pc' = "build" /\ UNCHANGED last
       ELSE StartFailed(f)
    /\ UNCHANGED <<adders, versionOutput,
                   fcKernelParams, sandbox, sinceStart, end, nStop, nClean,
                   state, pendingDevices, fcConfig, info, connection, config,
                   drainIdx, drainLen, drainFrom, applied, configFile, vmm,
                   lastApi, sawRunning, counters>>

\* the calls of fcInitConfiguration that can fail, in program order
BuildSteps ==
    <<"kernelAsset", "bootSource", "imageAsset", "rootfs", "diskPool",
      "logFifo", "metricsFifo", "ok">>

Rank(f) == CHOOSE i \in 1..Len(BuildSteps) : BuildSteps[i] = f

\* the call named step returned without error when the build fails at f
Passed(step, f) == Rank(step) < Rank(f)

\* the failing calls whose error is assigned to the variable err that the
\* deferred function of fcInitConfiguration reads; the others declare an
\* err of their own in the if statement
AssignsErr == {"kernelAsset", "imageAsset"}

\* iterations of createDiskPool at which os.Create is made to fail
CreateFailAt == {0, 5}

\* fcInitConfiguration from fcSetVMBaseConfig to fcSetLogger
FcInitConfigurationBuild(f, n) ==
    /\ pc = "build"
    /\ f \in {BuildSteps[i] : i \in 1..Len(BuildSteps)}
    /\ IF f = "diskPool" THEN n \in CreateFailAt ELSE n = fcDiskPoolSize
    /\ Fault(f # "ok")
    /\ LET c1 == fcSetVMBaseConfig(fcConfig)
           list == IF Passed("kernelAsset", f)
                   THEN fcKernelParams \o modeParams(config.Debug, sandbox.stateful)
                   ELSE fcKernelParams
           c2 == IF Passed("bootSource", f)
                 THEN fcSetBootSource(c1, formattedParams(config.KernelParams, list))
                 ELSE c1
           c3 == IF Passed("rootfs", f) THEN fcSetVMRootfs(c2) ELSE c2
           c4 == IF Passed("rootfs", f) /\ Rank(f) >= Rank("diskPool")
                 THEN createDiskPool(c3, n) ELSE c3
           c5 == IF f = "ok" THEN fcSetLogger(c4) ELSE c4
           m1 == IF Passed("bootSource", f)
                 THEN bindMount(mounts, jailedLocation(fcKernel)) ELSE mounts
           m2 == IF Passed("rootfs", f)
                 THEN bindMount(m1, jailedLocation(fcRootfs)) ELSE m1
           m3 == IF Passed("logFifo", f)
                 THEN bindMount(m2, jailedLocation(fcLogFifo)) ELSE m2
           m4 == IF Passed("metricsFifo", f)
                 THEN bindMount(m3, jailedLocation(fcMetricsFifo)) ELSE m3
       IN  /\ fcConfig' = c5
           /\ fcKernelParams' = list
           /\ mounts' = m4
           /\ vmDir' = IF f \in AssignsErr THEN RemoveAll(m4) ELSE vmDir
    /\ IF f = "ok" THEN pc' = "setCfReady" /\ UNCHANGED last
       ELSE StartFailed(f)
    /\ UNCHANGED <<adders,
                   versionOutput, sandbox, sinceStart, end, nStop, nClean,
                   state, pendingDevices, jailed, info, connection, config,
                   drainIdx, drainLen, drainFrom, applied, configFile, vmm,
                   lastApi, sawRunning, counters>>

\* fc.state.set(cfReady) and the evaluation of the range expression
FcInitConfigurationSetCfReady ==
    /\ pc = "setCfReady"
    /\ Lock
    /\ state' = cfReady
    /\ drainIdx' = 1
    /\ drainLen' = Len(pendingDevices)
    /\ drainFrom' = [Drives |-> Len(fcConfig.Drives),
                     NetworkInterfaces |-> Len(fcConfig.NetworkInterfaces)]
    /\ pc' = IF Len(pendingDevices) = 0 THEN "writeConfig" ELSE "drain"
    /\ UNCHANGED <<adders, versionOutput, fcKernelParams,
                   sandbox, sinceStart, end, nStop, nClean, vmDir,
                   pendingDevices, fcConfig, jailed, info, connection, config,
                   applied, configFile, environment, last, counters, nFault>>

\* a loop that walks the queue from its end
rangeBackwards(i) == pendingDevices[drainLen + 1 - i]

\* the entry the i-th iteration of "for _, d := range fc.pendingDevices" gets
rangePendingDevices(i) == pendingDevices[i]

\* one iteration of the loop over fc.pendingDevices
FcInitConfigurationDrain(mountOk) ==
    /\ pc = "drain"
    /\ drainIdx <= drainLen
    /\ ~mountOk => TriesMount(rangePendingDevices(drainIdx).dev)
    /\ Fault(~mountOk)
    /\ LET d == rangePendingDevices(drainIdx)
           r == addDevice(d.dev, mountOk)
       IN  /\ pendingDevices' = r.pendingDevices
           /\ fcConfig' = r.fcConfig
           /\ mounts' = r.mounts
           /\ applied' = IF state # notReady /\ r.err = "" /\ Known(d.dev)
                         THEN [applied EXCEPT ![drainIdx] = @ + 1]
                         ELSE Queued(r)
           /\ IF r.err # "" THEN StartFailed(r.err) /\ UNCHANGED drainIdx
              ELSE /\ drainIdx' = drainIdx + 1
                   /\ pc' = IF drainIdx + 1 > drainLen THEN "writeConfig"
                            ELSE "drain"
                   /\ UNCHANGED last
    /\ UNCHANGED <<adders, versionOutput,
                   fcKernelParams, sandbox, sinceStart, end, nStop, nClean,
                   vmDir, state, jailed, info, connection, config, drainLen,
                   drainFrom, configFile, vmm, lastApi, sawRunning, counters>>

\* json.MarshalIndent and ioutil.WriteFile of the configuration
WriteConfig(ok) ==
    /\ pc = "writeConfig"
    /\ Fault(~ok)
    /\ IF ok THEN /\ configFile' = fcConfig
                  /\ pc' = "fcInit"
                  /\ UNCHANGED last
       ELSE /\ StartFailed("writeFile")
            /\ UNCHANGED configFile
    /\ UNCHANGED <<adders, versionOutput, fcKernelParams,
                   sandbox, sinceStart, end, nStop, nClean, vmDir,
                   controller, config, drainIdx, drainLen, drainFrom, applied,
                   environment, counters>>

(* The version gate.  Here a version is the string the program handles. *)

\* strings.SplitN(s, sep, n) for a separator of one character
RECURSIVE stringsSplitN(_, _, _)
stringsSplitN(s, sep, n) ==
    LET hits == { i \in 1..Len(s) : SubSeq(s, i, i) = sep }
    IN  IF n = 1 \/ hits = {} THEN <<s>>
        ELSE LET k == CHOOSE i \in hits : \A j \in hits : i <= j
             IN  <<SubSeq(s, 1, k - 1)>>
                 \o stringsSplitN(SubSeq(s, k + 1, Len(s)), sep, n - 1)

\* strings.Split(s, sep)
stringsSplit(s, sep) == stringsSplitN(s, sep, Len(s) + 1)

WhiteSpace == {" ", "\n", "\t", "\r"}

\* strings.TrimSpace
RECURSIVE stringsTrimSpace(_)
stringsTrimSpace(s) ==
    IF s = "" THEN s
    ELSE IF SubSeq(s, 1, 1) \in WhiteSpace
         THEN stringsTrimSpace(SubSeq(s, 2, Len(s)))
    ELSE IF SubSeq(s, Len(s), Len(s)) \in WhiteSpace
         THEN stringsTrimSpace(SubSeq(s, 1, Len(s) - 1))
    ELSE s

\* strings.TrimPrefix
stringsTrimPrefix(s, prefix) ==
    IF Len(s) >= Len(prefix) /\ SubSeq(s, 1, Len(prefix)) = prefix
    THEN SubSeq(s, Len(prefix) + 1, Len(s)) ELSE s

\* getVersionNumber: the version and the error it returns for the output of
\* the command
getVersionNumber(out) ==
    IF out.failed THEN [version |-> "", err |-> "version command failed"]
    ELSE LET fields == stringsSplit(out.data, " ")
         IN  IF Len(fields) > 1
             THEN [version |-> stringsTrimPrefix(stringsTrimSpace(fields[2]), "v"),
                   err |-> ""]
             ELSE [version |-> "", err |-> "malformed output"]

Digits == "0123456789"

DigitOf(c) == CHOOSE d \in 0..9 : SubSeq(Digits, d + 1, d + 1) = c

\* a number of the version: digits only, no leading zero
IsNumber(s) ==
    /\ s # ""
    /\ \A i \in 1..Len(s) : \E d \in 0..9 : SubSeq(Digits, d + 1, d + 1) = SubSeq(s, i, i)
    /\ Len(s) > 1 => SubSeq(s, 1, 1) # "0"

RECURSIVE ParseUint(_)
ParseUint(s) ==
    IF s = "" THEN 0
    ELSE 10 * ParseUint(SubSeq(s, 1, Len(s) - 1)) + DigitOf(SubSeq(s, Len(s), Len(s)))

\* semver.Make (declared outside fc.go): major.minor.patch, the patch
\* optionally followed by - and a pre-release
semverMake(s) ==
    LET parts == stringsSplitN(s, ".", 3)
        tail == IF Len(parts) = 3 THEN stringsSplitN(parts[3], "-", 2) ELSE <<"">>
        valid == /\ Len(parts) = 3
                 /\ IsNumber(parts[1]) /\ IsNumber(parts[2]) /\ IsNumber(tail[1])
                 /\ Len(tail) = 2 => tail[2] # ""
    IN  IF valid
        THEN [ok |-> TRUE, Major |-> ParseUint(parts[1]),
              Minor |-> ParseUint(parts[2]), Patch |-> ParseUint(tail[1]),
              Pre |-> Len(tail) = 2]
        ELSE [ok |-> FALSE, Major |-> 0, Minor |-> 0, Patch |-> 0, Pre |-> FALSE]

\* Version.LT (declared outside fc.go): a pre-release precedes its release
semverLT(v, o) ==
    \/ v.Major < o.Major
    \/ v.Major = o.Major /\ v.Minor < o.Minor
    \/ v.Major = o.Major /\ v.Minor = o.Minor /\ v.Patch < o.Patch
    \/ /\ v.Major = o.Major /\ v.Minor = o.Minor /\ v.Patch = o.Patch
       /\ v.Pre /\ ~o.Pre

fcMinSupportedVersion == semverMake("0.21.1")

\* a check that asks for a valid version only
checkVersionValidOnly(version) ==
    IF ~semverMake(version).ok THEN "malformed version" ELSE ""

\* checkVersion: the error it returns
checkVersion(version) ==
    LET v == semverMake(version)
    IN  IF ~v.ok THEN "malformed version"
        ELSE IF semverLT(v, fcMinSupportedVersion) THEN "version not supported"
        ELSE ""

\* the error of the version gate of fcInit for the output of the command
versionGate(out) ==
    LET r == getVersionNumber(out)
    IN  IF r.err # "" THEN r.err ELSE checkVersion(r.version)

\* fcInit up to newFireClient: version gate, jailing of the configuration
\* file, cmd.Start.  A failure runs the deferred fcEnd of startSandbox.
FcInit(f) ==
    /\ pc = "fcInit"
    /\ f \in {"ok", "version", "jailConfig", "spawn"}
    /\ f = "version" <=> versionGate(versionOutput) # ""
    /\ Fault(f # "ok")
    /\ mounts' = IF f \in {"ok", "spawn"}
                 THEN bindMount(mounts, jailedLocation(defaultFcConfig))
                 ELSE mounts
    /\ IF f = "ok"
       THEN /\ info' = [PID |-> nStart,
                        Version |-> getVersionNumber(versionOutput).version]
            /\ connection' = TRUE
            /\ vmm' = [pid |-> nStart, alive |-> TRUE,
                       drives |-> GuestDrives(configFile)]
            /\ sawRunning' = FALSE
            /\ pc' = "waitVMMRunning"
            /\ UNCHANGED <<last, end>>
       ELSE /\ vmm' = fcEnd
            /\ end' = deferredFcEnd
            /\ StartFailed(IF f = "version" THEN versionGate(versionOutput) ELSE f)
            /\ info' = [info EXCEPT
                           !.Version = getVersionNumber(versionOutput).version]
            /\ UNCHANGED <<connection, sawRunning>>
    /\ UNCHANGED <<adders, versionOutput, fcKernelParams,
                   sandbox, sinceStart, nStop, nClean, vmDir,
                   state, pendingDevices, fcConfig, jailed, config, drainIdx,
                   drainLen, drainFrom, applied, configFile, lastApi, counters>>

\* the answers vmRunning can get from DescribeInstance
Responses == {"error", "Uninitialized", "Starting", "Running"}

\* vmRunning with the case Starting answering true
vmRunningAcceptsStarting(resp) == resp \in {"Running", "Starting"}

\* vmRunning: what the switch over the answer returns
vmRunning(resp) ==
    CASE resp = "error" -> FALSE
      [] resp = "Starting" -> FALSE
      [] resp = "Running" -> TRUE
      [] resp = "Uninitialized" -> FALSE
      [] OTHER -> FALSE

\* a loop that gives up after its first round
timeoutAtOnce(t) == TRUE

\* int(time.Since(timeStart).Seconds()) > timeout, for the fcTimeout that
\* startSandbox passes
timeoutOver(t) == t > fcTimeout

\* one round of the loop of waitVMMRunning: vmRunning, the test of the
\* deadline, the sleep; a second passes between two rounds
WaitVMMRunning(resp) ==
    /\ pc = "waitVMMRunning"
    /\ resp \in Responses
    /\ resp = "Running" => vmm.alive
    /\ lastApi' = ApiCall("DescribeInstance", "", EmptyPath, resp = "Running")
    /\ sawRunning' = (sawRunning \/ resp = "Running")
    /\ IF vmRunning(resp)
       THEN /\ pc' = "chmod"
            /\ sinceStart' = 0
            /\ UNCHANGED <<vmm, last, end>>
       ELSE IF timeoutOver(sinceStart)
            THEN /\ vmm' = fcEnd
                 /\ end' = deferredFcEnd
                 /\ sinceStart' = 0
                 /\ StartFailed("timeout")
            ELSE /\ sinceStart' = sinceStart + 1
                 /\ UNCHANGED <<vmm, pc, last, end>>
    /\ UNCHANGED nFault
    /\ UNCHANGED <<adders, versionOutput,
                   fcKernelParams, sandbox, nStop, nClean, vmDir,
                   controller, config, drainIdx, drainLen, drainFrom, applied,
                   configFile, mounts, counters>>

\* os.Chmod of the hybrid vsock socket
Chmod(ok) ==
    /\ pc = "chmod"
    /\ Fault(~ok)
    /\ IF ok THEN pc' = "setVmReady" /\ UNCHANGED <<vmm, last, end>>
       ELSE vmm' = fcEnd /\ end' = deferredFcEnd /\ StartFailed("chmod")
    /\ UNCHANGED <<adders, versionOutput, fcKernelParams,
                   sandbox, sinceStart, nStop, nClean, vmDir,
                   controller, config, drainIdx, drainLen, drainFrom, applied,
                   configFile, mounts, lastApi, sawRunning, counters>>

\* fc.state.set(vmReady) and the return of startSandbox
SetVmReady ==
    /\ pc = "setVmReady"
    /\ Lock
    /\ state' = vmReady
    /\ pc' = "idle"
    /\ Return("startSandbox", NoDevice, "")
    /\ UNCHANGED <<adders, versionOutput, fcKernelParams,
                   sandbox, sinceStart, end, nStop, nClean, vmDir,
                   pendingDevices, fcConfig, jailed, info, connection, config,
                   drainIdx, drainLen, drainFrom, applied, configFile,
                   environment, counters, nFault>>

----------------------------------------------------------------------------
(* Block hotplug *)

\* drives the orchestrator hot-adds and hot-removes: one per pool index
HotplugDrives ==
    { BlockDrive("data", HostFile, i) : i \in 0..(fcDiskPoolSize - 1) }

\* the path hotplugBlockDevice hands to fcUpdateBlockDrive
hotplugBlockDevicePath(driveID, op) ==
    IF op = "addDevice" THEN fcJailResource(driveID)
    ELSE Join(jailerRoot, driveID)

\* the VMM accepts a PATCH of a drive it knows unless the call fails
PatchAccepted(id, apiOk) == vmm.alive /\ GuestHasDrive(id) /\ apiOk

\* fcUpdateBlockDrive: fc.client() and PatchGuestDriveByID
fcUpdateBlockDrive(path, id, apiOk) ==
    /\ connection' = TRUE
    /\ lastApi' = ApiCall("PatchGuestDriveByID", id, path, FALSE)
    /\ vmm' = IF PatchAccepted(id, apiOk)
              THEN [vmm EXCEPT !.drives = PatchGuestDriveByID(@, id, path)]
              ELSE vmm

\* a default case that logs and ignores the device, as the one of addDevice
unsupportedDeviceIgnored(devType) == ""

\* the default case of the switch of hotplugAddDevice and hotplugRemoveDevice:
\* the error returned for a device type that is not blockDev
unsupportedDevice(devType) == "unsupported device: " \o devType

\* hotplugAddDevice: the switch over the device type, and hotplugBlockDevice
\* for a block device
HotplugAddDevice(drive, mountOk, apiOk) ==
    /\ pc = "idle"
    /\ nHot < MaxHotplugs
    /\ Call(~mountOk \/ ~apiOk)
    /\ nHot' = nHot + 1
    /\ IF DevTypeOf(drive) # "blockDev"
       THEN /\ mountOk /\ apiOk
            /\ Fault(FALSE)
            /\ Return("hotplugAddDevice", drive, unsupportedDevice(DevTypeOf(drive)))
            /\ UNCHANGED <<mounts, connection, lastApi, vmm>>
       ELSE
       LET driveID == fcDriveIndexToID(drive.Index)
           invalid == fcJailResourceInvalid(drive.File, driveID)
       IN  /\ ~mountOk => ~invalid /\ apiOk
           /\ ~apiOk => vmm.alive /\ GuestHasDrive(driveID)
           /\ Fault(~mountOk \/ ~apiOk)
           /\ IF invalid \/ ~mountOk
              THEN /\ Return("hotplugAddDevice", drive, "fcJailResource")
                   /\ UNCHANGED <<mounts, connection, lastApi, vmm>>
              ELSE /\ mounts' = bindMount(mounts, jailedLocation(driveID))
                   /\ fcUpdateBlockDrive(
                          hotplugBlockDevicePath(driveID, "addDevice"), driveID, apiOk)
                   /\ Return("hotplugAddDevice", drive,
                             IF PatchAccepted(driveID, apiOk) THEN ""
                             ELSE "PatchGuestDriveByID")
    /\ UNCHANGED <<adders, versionOutput, fcKernelParams,
                   sandbox, sinceStart, end, nStop, nClean, vmDir,
                   state, pendingDevices, fcConfig, jailed, info, config,
                   startup, applied, sawRunning, nStart, nAdd>>

\* hotplugRemoveDevice: the switch over the device type, and
\* hotplugBlockDevice for a block device
HotplugRemoveDevice(drive, apiOk) ==
    /\ pc = "idle"
    /\ nHot < MaxHotplugs
    /\ Call(~apiOk)
    /\ nHot' = nHot + 1
    /\ IF DevTypeOf(drive) # "blockDev"
       THEN /\ apiOk
            /\ Fault(FALSE)
            /\ last' = [ op |-> "hotplugRemoveDevice", arg |-> drive,
                         err |-> unsupportedDevice(DevTypeOf(drive)),
                         undoes |-> FALSE ]
            /\ UNCHANGED <<mounts, connection, lastApi, vmm>>
       ELSE
       LET driveID == fcDriveIndexToID(drive.Index)
       IN  /\ ~apiOk => vmm.alive /\ GuestHasDrive(driveID)
           /\ Fault(~apiOk)
           /\ mounts' = umountResource(mounts, driveID)
           /\ fcUpdateBlockDrive(
                  hotplugBlockDevicePath(driveID, "removeDevice"), driveID, apiOk)
           /\ last' = [ op |-> "hotplugRemoveDevice", arg |-> drive,
                        err |-> IF PatchAccepted(driveID, apiOk) THEN ""
                                ELSE "PatchGuestDriveByID",
                        undoes |-> last = Returned("hotplugAddDevice", drive, "") ]
    /\ UNCHANGED <<adders, versionOutput, fcKernelParams,
                   sandbox, sinceStart, end, nStop, nClean, vmDir,
                   state, pendingDevices, fcConfig, jailed, info, config,
                   startup, applied, sawRunning, nStart, nAdd>>

----------------------------------------------------------------------------
(* cleanup *)

\* syscall.Unmount(fc.jailerRoot, MNT_DETACH): the lazy unmount of the jailer
\* root takes the mounts made below it along; an error is logged and ignored
umountJailerRoot(mnts) ==
    IF ~BagIn(jailerRoot, mnts) THEN mnts
    ELSE [m \in {jailerRoot} |-> CopiesIn(jailerRoot, mnts)] (-) SetToBag({jailerRoot})

\* the mounts cleanupJail leaves
cleanupJail(mnts) ==
    LET m1 == umountResource(mnts, fcKernel)
        m2 == umountResource(m1, fcRootfs)
        m3 == umountResource(m2, fcLogFifo)
        m4 == umountResource(m3, fcMetricsFifo)
        m5 == umountResource(m4, defaultFcConfig)
    IN  IF config.JailerPath # EmptyPath THEN umountJailerRoot(m5) ELSE m5

\* cleanup: cleanupJail, then os.RemoveAll(fc.vmPath); it returns nil
Cleanup ==
    /\ pc = "idle"
    /\ Call(FALSE)
    /\ nClean' = nClean + 1
    /\ mounts' = cleanupJail(mounts)
    /\ vmDir' = RemoveAll(cleanupJail(mounts))
    /\ Return("cleanup", NoDevice, "")
    /\ UNCHANGED <<adders,
                   versionOutput, fcKernelParams, sandbox, sinceStart, end,
                   nStop, controller, config, startup, applied, vmm, lastApi,
                   sawRunning, nStart, nAdd, nHot, nFault>>

----------------------------------------------------------------------------
(* stopSandbox: fcEnd step by step *)

Signal(sig, res) == [sig |-> sig, res |-> res, at |-> end.waited]

\* a loop that gives up waiting at its first round
deadlineAlwaysPassed(t) == TRUE

\* time.Since(tInit).Seconds() >= fcStopSandboxTimeout
deadlinePassed(t) == t >= fcStopSandboxTimeout

\* stopSandbox is called for a controller that has spawned a VMM
StopSandbox ==
    /\ pc = "idle"
    /\ info.PID # 0
    /\ nStop < MaxStops
    /\ Call(FALSE)
    /\ nStop' = nStop + 1
    /\ pc' = "fcEnd"
    /\ end' = [waited |-> 0, signals |-> <<>>]
    /\ UNCHANGED <<adders, versionOutput, fcKernelParams, sandbox, sinceStart,
                   controller, config, drainIdx, drainLen, drainFrom, applied,
                   configFile, environment, vmDir, last, nStart, nAdd, nHot,
                   nClean, nFault>>

\* syscall.Kill(pid, SIGTERM); eperm tells that the kernel refuses the signal
FcEndSigterm(eperm) ==
    /\ pc = "fcEnd"
    /\ Fault(eperm)
    /\ LET res == IF eperm THEN "EPERM" ELSE Kill(info.PID)
       IN  /\ end' = [waited |-> 0, signals |-> <<Signal("SIGTERM", res)>>]
           /\ IF res = "" THEN pc' = "poll" /\ UNCHANGED last
              ELSE /\ pc' = "idle"
                   /\ Return("stopSandbox", NoDevice,
                             IF res = "ESRCH" THEN "" ELSE res)
    /\ UNCHANGED <<adders, versionOutput, fcKernelParams, sandbox, sinceStart,
                   controller, config, drainIdx, drainLen, drainFrom, applied,
                   configFile, environment, vmDir, counters, nClean, nStop>>

\* one round of the loop of fcEnd: signal 0, the test of the deadline, the
\* sleep; a second passes between two rounds
FcEndPoll ==
    /\ pc = "poll"
    /\ LET res == Kill(info.PID)
       IN  /\ end' = [waited |-> IF res = "" /\ ~deadlinePassed(end.waited)
                                  THEN end.waited + 1 ELSE end.waited,
                      signals |-> Append(end.signals, Signal("0", res))]
           /\ IF res # "" THEN pc' = "idle" /\ Return("stopSandbox", NoDevice, "")
              ELSE IF deadlinePassed(end.waited)
                   THEN pc' = "sigkill" /\ UNCHANGED last
                   ELSE UNCHANGED <<pc, last>>
    /\ UNCHANGED <<adders, versionOutput, fcKernelParams, sandbox, sinceStart,
                   controller, config, drainIdx, drainLen, drainFrom, applied,
                   configFile, environment, vmDir, counters, nClean, nStop,
                   nFault>>

\* return syscall.Kill(pid, SIGKILL)
FcEndSigkill ==
    /\ pc = "sigkill"
    /\ LET res == Kill(info.PID)
       IN  /\ end' = [end EXCEPT !.signals = Append(@, Signal("SIGKILL", res))]
           /\ vmm' = IF res = "" THEN [vmm EXCEPT !.alive = FALSE] ELSE vmm
           /\ pc' = "idle"
           /\ Return("stopSandbox", NoDevice, res)
    /\ UNCHANGED <<adders, versionOutput, fcKernelParams, sandbox, sinceStart,
                   controller, config, drainIdx, drainLen, drainFrom, applied,
                   configFile, mounts, lastApi, sawRunning, vmDir, counters,
                   nClean, nStop, nFault>>

\* the VMM process exits while fcEnd is at work: on the SIGTERM it got, or on
\* its own
ChildExits ==
    /\ pc \in {"poll", "sigkill"}
    /\ vmm.alive
    /\ vmm' = [vmm EXCEPT !.alive = FALSE]
    /\ UNCHANGED <<adders, versionOutput, fcKernelParams, sandbox, sinceStart,
                   controller, config, startup, applied, mounts, lastApi,
                   sawRunning, vmDir, last, counters, nClean, nStop, end,
                   nFault>>

----------------------------------------------------------------------------
(* The controller driven by one orchestrator task *)

StartSteps ==
    \/ StartSandbox
    \/ \E f \in {"ok", "mkdir", "bindMount", "remount"} : FcInitConfigurationJail(f)
    \/ \E f \in {BuildSteps[i] : i \in 1..Len(BuildSteps)} :
          \E n \in CreateFailAt \cup {fcDiskPoolSize} : FcInitConfigurationBuild(f, n)
    \/ FcInitConfigurationSetCfReady
    \/ \E ok \in BOOLEAN : WriteConfig(ok)
    \/ \E f \in {"ok", "version", "jailConfig", "spawn"} : FcInit(f)
    \/ \E resp \in Responses : WaitVMMRunning(resp)
    \/ \E ok \in BOOLEAN : Chmod(ok)
    \/ SetVmReady

\* the orchestrator queues and adds devices, starts and disconnects
Next ==
    \/ \E d \in Devices(nAdd) : \E mountOk \in BOOLEAN : AddDevice(d, mountOk)
    \/ \E mountOk \in BOOLEAN : FcInitConfigurationDrain(mountOk)
    \/ Disconnect
    \/ StartSteps

Spec == Init /\ [][Next]_vars

\* the orchestrator starts, disconnects and hot-plugs block drives
NextHotplug ==
    \/ \E drive \in HotplugDrives : \E mountOk, apiOk \in BOOLEAN :
          HotplugAddDevice(drive, mountOk, apiOk)
    \/ \E drive \in HotplugDrives : \E apiOk \in BOOLEAN :
          HotplugRemoveDevice(drive, apiOk)
    \/ Disconnect
    \/ StartSteps

SpecHotplug == Init /\ [][NextHotplug]_vars

\* the orchestrator adds devices, starts, disconnects and cleans up
NextCleanup ==
    \/ \E d \in Devices(nAdd) : \E mountOk \in BOOLEAN : AddDevice(d, mountOk)
    \/ \E mountOk \in BOOLEAN : FcInitConfigurationDrain(mountOk)
    \/ Disconnect
    \/ StartSteps
    \/ Cleanup

SpecCleanup == Init /\ [][NextCleanup]_vars

\* the orchestrator starts, disconnects and stops the sandbox
NextStop ==
    \/ StopSandbox
    \/ \E eperm \in BOOLEAN : FcEndSigterm(eperm)
    \/ FcEndPoll
    \/ FcEndSigkill
    \/ ChildExits
    \/ Disconnect
    \/ StartSteps

SpecStop == Init /\ [][NextStop]_vars

\* the zero controller and the arguments createSandbox is about to get
InitCreate ==
    /\ Created
    /\ versionOutput = Output("Firecracker v0.21.1\n", FALSE)
    /\ pc = "new"
    /\ \E id \in SandboxIDs : \E path \in HypervisorPaths :
          sandbox = [ given |-> id, hypervisorPath |-> path, id |-> "",
                      chrootBaseDir |-> "", vmPath |-> "", jailerRoot |-> "",
                      stateful |-> FALSE, socketPath |-> "" ]
    /\ \E j \in JailerPaths :
          config = [JailerPath |-> j, Debug |-> FALSE, KernelParams |-> <<>>]

CreateSandbox ==
    /\ pc = "new"
    /\ pc' = "idle"
    /\ sandbox' = createSandbox(sandbox.given, sandbox.hypervisorPath,
                                sandbox.stateful)
    /\ state' = notReady
    /\ fcConfig' = EmptyConfig
    /\ Return("createSandbox", NoDevice, "")
    /\ UNCHANGED <<adders, versionOutput, fcKernelParams,
                   pendingDevices, jailed, info, connection, config, drainIdx,
                   drainLen, drainFrom, applied, configFile, environment,
                   vmDir, counters, nClean, nStop, end, sinceStart, nFault>>

NextCreate ==
    \/ CreateSandbox
    \/ Disconnect

SpecCreate == InitCreate /\ [][NextCreate]_vars

\* the orchestrator starts and disconnects
NextStart ==
    \/ Disconnect
    \/ StartSteps

\* the loop of waitVMMRunning keeps running: every round ends, in an answer of
\* the VMM or an error of the transport, and the clock advances
SpecStartFair ==
    /\ Init /\ [][NextStart]_vars
    /\ WF_vars(\E resp \in Responses : WaitVMMRunning(resp))

----------------------------------------------------------------------------
(* Properties *)

\* positions of startSandbox after the drain of fcInitConfiguration
PostDrain == pc \in {"writeConfig", "fcInit", "waitVMMRunning", "chmod", "setVmReady"}

\* ids of the block drives among the first n entries of the queue, in order
QueuedDriveIDs(n) ==
    LET q == SelectSeq(SubSeq(pendingDevices, 1, n),
                       LAMBDA e : e.dev.type = "BlockDrive")
    IN  [i \in 1..Len(q) |-> q[i].dev.ID]

\* names of the endpoints among the first n entries of the queue, in order
QueuedEndpointNames(n) ==
    LET q == SelectSeq(SubSeq(pendingDevices, 1, n),
                       LAMBDA e : e.dev.type = "Endpoint")
    IN  [i \in 1..Len(q) |-> q[i].dev.Name]

\* ids of the drives the configuration gained since the drain began
DrivesSinceDrain ==
    [i \in 1..(Len(fcConfig.Drives) - drainFrom.Drives) |->
        fcConfig.Drives[drainFrom.Drives + i].DriveID]

\* interface ids the configuration gained since the drain began
InterfacesSinceDrain ==
    [i \in 1..(Len(fcConfig.NetworkInterfaces) - drainFrom.NetworkInterfaces) |->
        fcConfig.NetworkInterfaces[drainFrom.NetworkInterfaces + i].IfaceID]

\* C1: the devices queued by addDevice while NotReady are applied by the drain
\* of startSandbox in insertion order: while the drain runs, and after it, the
\* drives (network interfaces) the configuration gained from it are the queued
\* block drives (endpoints) handled so far, in the order they were queued.
C1_InsertionOrder ==
    /\ pc = "drain" =>
         /\ DrivesSinceDrain = QueuedDriveIDs(drainIdx - 1)
         /\ InterfacesSinceDrain = QueuedEndpointNames(drainIdx - 1)
    /\ PostDrain =>
         /\ DrivesSinceDrain = QueuedDriveIDs(Len(pendingDevices))
         /\ InterfacesSinceDrain = QueuedEndpointNames(Len(pendingDevices))

\* two different block drives were queued and the drain has applied both
C1_Witness ==
    /\ pc = "writeConfig"
    /\ Len(DrivesSinceDrain) = 2
    /\ DrivesSinceDrain[1] # DrivesSinceDrain[2]

\* the configuration after addDevice routed payload d to the builder
RoutedByKind(d, err) ==
    CASE d.type = "Endpoint" ->
           /\ err = ""
           /\ Len(fcConfig'.NetworkInterfaces) = Len(fcConfig.NetworkInterfaces) + 1
           /\ fcConfig'.NetworkInterfaces[Len(fcConfig'.NetworkInterfaces)].IfaceID = d.Name
           /\ fcConfig'.Drives = fcConfig.Drives
           /\ fcConfig'.Vsock = fcConfig.Vsock
      [] d.type = "BlockDrive" ->
           IF err = ""
           THEN /\ Len(fcConfig'.Drives) = Len(fcConfig.Drives) + 1
                /\ fcConfig'.Drives[Len(fcConfig'.Drives)].DriveID = d.ID
                /\ fcConfig'.NetworkInterfaces = fcConfig.NetworkInterfaces
                /\ fcConfig'.Vsock = fcConfig.Vsock
           ELSE fcConfig' = fcConfig
      [] d.type = "HybridVSock" ->
           /\ err = ""
           /\ Len(fcConfig'.Vsock) = 1
           /\ fcConfig'.Drives = fcConfig.Drives
           /\ fcConfig'.NetworkInterfaces = fcConfig.NetworkInterfaces
      [] OTHER -> err = "" /\ fcConfig' = fcConfig

C3_DrainedOnce ==
    /\ \A i \in 1..Len(applied) : applied[i] <= 1
    /\ PostDrain => \A i \in 1..drainLen :
                       Known(pendingDevices[i].dev) => applied[i] = 1

\* every transition of the vmm state that startSandbox makes
C4_Order ==
    /\ state' = cfReady /\ state # cfReady => pc = "setCfReady"
    /\ state' = vmReady /\ state # vmReady =>
          /\ state = cfReady
          /\ pc = "setVmReady"
          /\ lastApi.op = "DescribeInstance"
          /\ lastApi.running
          /\ info.PID # 0
    /\ state = notReady => state' # vmReady

\* C4: the state becomes VmReady only from ConfigReady, after DescribeInstance
\* on the spawned VMM returned Running and the chmod succeeded, never directly
\* from NotReady; whenever the state is VmReady a child PID is recorded and
\* that child has answered Running.
C4_VmReadyAfterRunning ==
    /\ [](state = vmReady => info.PID # 0 /\ vmm.pid = info.PID /\ sawRunning)
    /\ [][C4_Order]_vars

\* a start has returned success
C4_Witness ==
    /\ state = vmReady
    /\ last = Returned("startSandbox", NoDevice, "")
    /\ pc = "idle"

\* C5 (as claimed): after startSandbox returned an error the vmm state is
\* NotReady, and after disconnect it is NotReady.
C5_FailureResetsState ==
    /\ (pc = "idle" /\ last.op = "startSandbox" /\ last.err # "") => state = notReady
    /\ (pc = "idle" /\ last.op = "disconnect") => state = notReady

\* number of block drives in the queue
QueuedBlockDrives == Len(QueuedDriveIDs(Len(pendingDevices)))

\* C6 (as claimed): after a successful configuration with K queued block drives
\* the Drives list has exactly 1 + 8 + K entries: the rootfs, the placeholders
\* drive_0 .. drive_7, then the K explicit drives.
C6_DriveLayout ==
    PostDrain =>
      /\ Len(fcConfig.Drives) = 1 + fcDiskPoolSize + QueuedBlockDrives
      /\ fcConfig.Drives[1].DriveID = "rootfs"
      /\ fcConfig.Drives[1].IsReadOnly /\ ~fcConfig.Drives[1].IsRootDevice
      /\ \A i \in 0..(fcDiskPoolSize - 1) :
            /\ fcConfig.Drives[2 + i].DriveID = fcDriveIndexToID(i)
            /\ ~fcConfig.Drives[2 + i].IsReadOnly
            /\ ~fcConfig.Drives[2 + i].IsRootDevice
      /\ \A i \in 1..QueuedBlockDrives :
            fcConfig.Drives[1 + fcDiskPoolSize + i].DriveID =
                QueuedDriveIDs(Len(pendingDevices))[i]

\* a path as the VMM sees it inside the jail
GuestVisible(p) == IsAbs(p) /\ ~HasPathPrefix(p, jailerRoot)

\* C7 (as claimed): when jailed, every path stored in the configuration, and
\* every drive path the running VMM was given at boot or by an accepted
\* PatchGuestDriveByID, is guest-visible.
C7_GuestVisiblePaths ==
    jailed =>
      /\ \A i \in 1..Len(fcConfig.BootSource) :
            GuestVisible(fcConfig.BootSource[i].KernelImagePath)
      /\ \A i \in 1..Len(fcConfig.Drives) : GuestVisible(fcConfig.Drives[i].PathOnHost)
      /\ \A i \in 1..Len(fcConfig.Logger) :
            /\ GuestVisible(fcConfig.Logger[i].LogFifo)
            /\ GuestVisible(fcConfig.Logger[i].MetricsFifo)
      /\ \A i \in 1..Len(fcConfig.Vsock) : GuestVisible(fcConfig.Vsock[i].UdsPath)
      /\ vmm.alive =>
            \A i \in 1..Len(vmm.drives) : GuestVisible(vmm.drives[i].PathOnHost)

\* C8 (as claimed): once the state is VmReady no operation of the orchestrator
\* changes the configuration.
C8_ConfigImmutable ==
    [][ state = vmReady /\ pc = "idle" /\ pc' = "idle" => fcConfig' = fcConfig ]_vars

\* the path the VMM has for drive id
GuestPath(id) ==
    vmm.drives[CHOOSE i \in 1..Len(vmm.drives) : vmm.drives[i].DriveID = id].PathOnHost

\* the path createDiskPool stored in the configuration for drive id
PlaceholderPath(id) ==
    fcConfig.Drives[CHOOSE i \in 1..Len(fcConfig.Drives) :
                        fcConfig.Drives[i].DriveID = id].PathOnHost

\* C9 (as claimed): a hotplug add followed by the hotplug remove of the same
\* drive leaves the VMM with the placeholder path of the configuration for that
\* drive, and no bind mount on it.
C9_HotplugRoundTrip ==
    (last.op = "hotplugRemoveDevice" /\ last.err = "" /\ last.undoes) =>
      LET id == fcDriveIndexToID(last.arg.Index)
      IN  /\ GuestPath(id) = PlaceholderPath(id)
          /\ ~BagIn(jailedLocation(id), mounts)

\* C10 (as claimed): no API call is made while the state is NotReady, and
\* PatchGuestDriveByID is sent only when the state is VmReady.
C10_NoApiCallWhenNotReady ==
    /\ lastApi.op # "none" => lastApi.state # notReady
    /\ lastApi.op = "PatchGuestDriveByID" => lastApi.state = vmReady

----------------------------------------------------------------------------
(* Failure handling, cleanup and shutdown *)

\* the bind mounts of the configuration: kernel, rootfs, fifos, configuration
\* file, and the jailer root mounted onto itself
ConfigMounts ==
    { jailedLocation(fcKernel), jailedLocation(fcRootfs),
      jailedLocation(fcLogFifo), jailedLocation(fcMetricsFifo),
      jailedLocation(defaultFcConfig), jailerRoot }

\* C11 (as claimed): when startSandbox has returned an error, <vmPath> has
\* been removed and the bind mounts of the configuration are released.
C11_FailedStartCleansUp ==
    (pc = "idle" /\ last.op = "startSandbox" /\ last.err # "") =>
        /\ ~vmDir
        /\ \A m \in ConfigMounts : ~BagIn(m, mounts)

\* C12 (as claimed): after cleanup has returned, <vmPath> does not exist and
\* no bind mount made by the controller remains.
C12_CleanupLeavesNothing ==
    (pc = "idle" /\ last.op = "cleanup") => ~vmDir /\ mounts = EmptyBag

\* the last signal the current fcEnd has sent
LastSignal == end.signals[Len(end.signals)]

\* C13 (as claimed): an fcEnd that found the child gone at the last signal it
\* sent (SIGTERM, a poll or SIGKILL) returns no error.
C13_NoErrorOnDeadChild ==
    (pc = "idle" /\ last.op = "stopSandbox" /\ LastSignal.res = "ESRCH") =>
        last.err = ""

\* C20: SIGKILL is the last signal of an fcEnd, sent only after a delivered
\* SIGTERM and polls that all found the child alive, the last of them at the
\* deadline; the value fcEnd returns is then the result of the SIGKILL.
C20_SigkillLastResort ==
    \A i \in 1..Len(end.signals) :
        end.signals[i].sig = "SIGKILL" =>
            /\ i = Len(end.signals)
            /\ i >= 3
            /\ end.signals[1] = [sig |-> "SIGTERM", res |-> "", at |-> 0]
            /\ \A j \in 2..(i - 1) :
                   end.signals[j].sig = "0" /\ end.signals[j].res = ""
            /\ end.signals[i - 1].at >= fcStopSandboxTimeout
            /\ (pc = "idle" /\ last.op = "stopSandbox") =>
                   last.err = end.signals[i].res

\* a child that ignored SIGTERM is killed at the deadline
C20_Witness ==
    /\ pc = "idle" /\ last.op = "stopSandbox" /\ last.err = ""
    /\ Len(end.signals) = fcStopSandboxTimeout + 3
    /\ LastSignal = [sig |-> "SIGKILL", res |-> "", at |-> fcStopSandboxTimeout]
    /\ ~vmm.alive

----------------------------------------------------------------------------
(* Readiness poll *)

----------------------------------------------------------------------------
(* createSandbox *)

\* C15 (as claimed): the stored id is the given id cut to its first 32
\* characters, and the API socket path
\* <chrootBase>/<vmmBasename>/<id>/root/run/firecracker.socket has at most 108
\* bytes.
C15_IdAndSocketLength ==
    pc # "new" =>
    /\ Len(sandbox.id) <= 32
    /\ sandbox.id = IF Len(sandbox.given) <= 32 THEN sandbox.given
                    ELSE SubSeq(sandbox.given, 1, 32)
    /\ Len(sandbox.socketPath) <= 108

----------------------------------------------------------------------------
(* Boot arguments: controllers that differ in debug mode, statefulness and
   the caller's kernel parameters, started repeatedly in one process *)

CallerKernelParams == { <<>>, << Param("agent.log", "debug") >> }

InitBoot ==
    /\ Created
    /\ versionOutput = Output("Firecracker v0.21.1\n", FALSE)
    /\ pc = "idle"
    /\ \E isStateful \in BOOLEAN :
          sandbox = createSandbox("sb", "/usr/bin/firecracker", isStateful)
    /\ config \in [JailerPath : JailerPaths, Debug : BOOLEAN,
                   KernelParams : CallerKernelParams]

SpecBoot == InitBoot /\ [][NextStart]_vars

\* the boot arguments the configuration of this controller alone determines
expectedBootArgs ==
    formattedParams(config.KernelParams,
                    baseKernelParams \o modeParams(config.Debug, sandbox.stateful))

\* C16: the boot arguments of a start are the caller's kernel parameters, the
\* fixed base set and exactly one mode suffix, whatever was started before in
\* the same process
C16_BootArgsPerStart ==
    fcConfig.BootSource # <<>> =>
        fcConfig.BootSource[1].BootArgs = expectedBootArgs

----------------------------------------------------------------------------
(* The operations Firecracker does not implement, and capabilities *)

\* the capabilities a types.Capabilities value can carry
BlockDeviceHotplugSupport == "blockDeviceHotplug"

capabilities == [flags |-> { BlockDeviceHotplugSupport }]

\* what resizeMemory returns: the new size, the memory device, the error
memoryDevice == [slot |-> 0, sizeMB |-> 0, addr |-> 0, probe |-> FALSE]

resizeMemory(reqMemMB, memoryBlockSizeMB, probe) == << 0, memoryDevice, "" >>

\* a resize that grants what was asked for
resizeVCPUsGranted(reqVCPUs) == << reqVCPUs, reqVCPUs, "" >>

\* what resizeVCPUs returns: currentVCPUs, newVCPUs, err
resizeVCPUs(reqVCPUs) == << 0, 0, "" >>

\* the sizes the orchestrator asks for
ReqSizes == {0, 1}

\* an operation that returns a value to the caller
ReturnValue(op, err, value) ==
    last' = [op |-> op, arg |-> NoDevice, err |-> err, value |-> value]

\* everything but the record of the last return
untouched ==
    <<adders, versionOutput, fcKernelParams, sandbox, sinceStart, end, nStop,
      nClean, vmDir,
      controller, config, startup, applied, environment, counters, nFault>>

PauseSandbox ==
    /\ pc = "idle"
    /\ Return("pauseSandbox", NoDevice, "")
    /\ UNCHANGED untouched

SaveSandbox ==
    /\ pc = "idle"
    /\ Return("saveSandbox", NoDevice, "")
    /\ UNCHANGED untouched

ResumeSandbox ==
    /\ pc = "idle"
    /\ Return("resumeSandbox", NoDevice, "")
    /\ UNCHANGED untouched

ResizeMemory(reqMemMB, memoryBlockSizeMB, probe) ==
    /\ pc = "idle"
    /\ LET r == resizeMemory(reqMemMB, memoryBlockSizeMB, probe)
       IN  ReturnValue("resizeMemory", r[3], [size |-> r[1], device |-> r[2]])
    /\ UNCHANGED untouched

ResizeVCPUs(reqVCPUs) ==
    /\ pc = "idle"
    /\ LET r == resizeVCPUs(reqVCPUs)
       IN  ReturnValue("resizeVCPUs", r[3],
                       [currentVCPUs |-> r[1], newVCPUs |-> r[2]])
    /\ UNCHANGED untouched

Capabilities ==
    /\ pc = "idle"
    /\ ReturnValue("capabilities", "", capabilities)
    /\ UNCHANGED untouched

\* the orchestrator queues block drives, starts, disconnects, and calls the
\* unimplemented operations at any time between them
NextUnimplemented ==
    \/ \E mountOk \in BOOLEAN :
          AddDevice(BlockDrive("blk" \o ToString(nAdd), HostFile, nAdd), mountOk)
    \/ \E mountOk \in BOOLEAN : FcInitConfigurationDrain(mountOk)
    \/ Disconnect
    \/ StartSteps
    \/ PauseSandbox
    \/ SaveSandbox
    \/ ResumeSandbox
    \/ \E req, blk \in ReqSizes : \E probe \in BOOLEAN : ResizeMemory(req, blk, probe)
    \/ \E req \in ReqSizes : ResizeVCPUs(req)
    \/ Capabilities

SpecUnimplemented == Init /\ [][NextUnimplemented]_vars

Unimplemented ==
    {"pauseSandbox", "saveSandbox", "resumeSandbox", "resizeMemory", "resizeVCPUs"}

\* C17: pauseSandbox, saveSandbox, resumeSandbox, resizeMemory and resizeVCPUs
\* return success, the resizes with zero values, wherever they are called, and
\* change neither the vmm state, the queue of pending devices, the boot
\* configuration, the recorded PID nor the mounts; capabilities() reports
\* block-device hotplug support wherever it is called.
C17_UnimplementedChangeNothing ==
    [][ /\ (last' # last /\ last'.op \in Unimplemented) =>
             /\ last'.err = ""
             /\ last'.op = "resizeMemory" =>
                  last'.value = [size |-> 0, device |-> memoryDevice]
             /\ last'.op = "resizeVCPUs" =>
                  last'.value = [currentVCPUs |-> 0, newVCPUs |-> 0]
             /\ UNCHANGED <<state, pendingDevices, fcConfig, info, mounts, vmm,
                            jailed, connection, configFile, vmDir>>
        /\ (last' # last /\ last'.op = "capabilities") =>
             /\ BlockDeviceHotplugSupport \in last'.value.flags
             /\ UNCHANGED <<state, pendingDevices, fcConfig, info, mounts, vmm>>
      ]_vars

\* a resize was asked of a running VM with a queued device, a recorded PID and
\* a mounted jail
C17_Witness ==
    /\ last.op = "resizeVCPUs"
    /\ state = vmReady
    /\ pendingDevices # <<>>
    /\ info.PID # 0
    /\ mounts # EmptyBag

\* C18 (as claimed): once the drain of fcInitConfiguration has completed and
\* the vmm state is ConfigReady or VmReady, the queue of pending devices is
\* empty.
C18_QueueEmptyAfterDrain ==
    (state \in {cfReady, vmReady} /\ (PostDrain \/ (pc = "idle" /\ state = vmReady)))
        => pendingDevices = <<>>

\* the errors fcInitConfiguration returns after <jailerRoot>/run was created:
\* of the remount of the jailer root, of the steps that build the
\* configuration, and of addDevice in the drain
AfterMkdir ==
    {"bindMount", "remount", "invalid jail locations", "bindMount failed"}
    \cup ({BuildSteps[i] : i \in 1..Len(BuildSteps)} \ {"ok"})

\* C19 (as claimed): when a step of fcInitConfiguration after the creation of
\* <jailerRoot>/run has failed, <vmPath> has been removed by the time the error
\* is returned.
C19_InitFailureRemovesVmPath ==
    (pc = "idle" /\ last.op = "startSandbox" /\ last.err \in AfterMkdir) => ~vmDir

----------------------------------------------------------------------------
(* Claims about the hotplug of block drives *)

\* C21: a hotplug add of a block drive with index i bind-mounts the backing
\* file at <jailerRoot>/drive_i and then issues PatchGuestDriveByID for the
\* drive id drive_i, built from the caller's drive.Index and not from drive.ID;
\* when the bind mount fails the error is returned and no PATCH is issued.
C21_MountThenPatch ==
    [][ (nHot' = nHot + 1 /\ last'.op = "hotplugAddDevice"
           /\ last'.arg.type = "BlockDrive") =>
          LET id == "drive_" \o ToString(last'.arg.Index)
          IN  IF last'.err = "fcJailResource"
              THEN UNCHANGED <<mounts, lastApi, vmm, connection>>
              ELSE /\ mounts' = mounts (+) SetToBag({Join(jailerRoot, id)})
                   /\ lastApi'.op = "PatchGuestDriveByID"
                   /\ lastApi'.id = id
                   /\ lastApi'.id # last'.arg.ID
                   /\ last'.err \in {"", "PatchGuestDriveByID"} ]_vars

\* a hotplug add has mounted the backing file and patched the drive
C21_Witness ==
    /\ last.op = "hotplugAddDevice"
    /\ last.arg.type = "BlockDrive"
    /\ last.err = ""
    /\ lastApi.op = "PatchGuestDriveByID"
    /\ lastApi.id = fcDriveIndexToID(last.arg.Index)
    /\ BagIn(jailedLocation(lastApi.id), mounts)

----------------------------------------------------------------------------
(* The version gate: controllers whose VMM binary prints different versions *)

\* outputs that carry a version of at least 0.21.1
Supported ==
    { "Firecracker v0.21.1\n", "Firecracker v0.21.1", "Firecracker v0.21.10\n",
      "Firecracker v0.22.0\n", "Firecracker v1.0.0\n", "Firecracker 0.21.2\n" }

\* outputs that carry a lower version
TooOld ==
    { "Firecracker v0.21.0\n", "Firecracker v0.20.0\n", "Firecracker v0.3.20\n",
      "Firecracker v0.21.1-rc1\n" }

\* outputs that carry no version
Malformed ==
    { "garbage", "", "Firecracker v0.21\n", "Firecracker v0.21.x\n",
      "Firecracker v01.22.0\n", "Firecracker version\n" }

VersionOutputs ==
    { Output(data, FALSE) : data \in Supported \cup TooOld \cup Malformed }
    \cup { Output("", TRUE) }

InitVersion ==
    /\ Created
    /\ pc = "idle"
    /\ versionOutput \in VersionOutputs
    /\ sandbox = createSandbox("sb", "/usr/bin/firecracker", FALSE)
    /\ \E j \in JailerPaths :
          config = [JailerPath |-> j, Debug |-> FALSE, KernelParams |-> <<>>]

SpecVersion == InitVersion /\ [][NextStart]_vars

\* the errors of the version gate
IncompatibleVersion ==
    {"version command failed", "malformed output", "malformed version",
     "version not supported"}

\* C22: during startSandbox a child is spawned only when the output of
\* --version carried a valid version of at least 0.21.1; with a lower version,
\* with malformed output or when the command fails no child is spawned, no
\* PID is recorded and an error is returned; 0.21.1 passes the gate.
C22_VersionGate ==
    [][ pc = "fcInit" =>
          /\ (vmm'.pid # vmm.pid \/ info'.PID # info.PID \/ pc' = "waitVMMRunning")
                => /\ ~versionOutput.failed
                   /\ versionOutput.data \in Supported
          /\ (versionOutput.failed \/ versionOutput.data \in TooOld \cup Malformed)
                => /\ pc' = "idle"
                   /\ last'.op = "startSandbox"
                   /\ last'.err \in IncompatibleVersion
                   /\ info'.PID = info.PID
                   /\ vmm'.pid = vmm.pid
          /\ (~versionOutput.failed /\ versionOutput.data \in Supported)
                => last'.err \notin IncompatibleVersion ]_vars

\* the gate let 0.21.1 through and the child was spawned
C22_Witness ==
    /\ versionOutput = Output("Firecracker v0.21.1\n", FALSE)
    /\ pc = "waitVMMRunning"
    /\ info.PID # 0
    /\ info.Version = "0.21.1"
    /\ vmm.alive

----------------------------------------------------------------------------
(* addDevice called from goroutines of its own, while startSandbox and
   disconnect run.  addDevice holds the read lock of fc.state from its first
   statement to its return; firecrackerState.set takes the write lock. *)

\* the payloads a goroutine hands to addDevice
GoDevices(g) == { Endpoint(g), BlockDrive(g, HostFile, 0) }

\* fc.state.RLock() and the test of the state.  In NotReady the call goes on
\* to the append, of which this step is the read of fc.pendingDevices; in the
\* other states it hands the payload to the builder and returns.
AddDeviceRLock(g, d) ==
    /\ pc # "new"
    /\ adders[g].pc = "idle"
    /\ nAdd < MaxAdds
    /\ Call(FALSE)
    /\ nAdd' = nAdd + 1
    /\ IF state = notReady
       THEN /\ adders' = [adders EXCEPT ![g] =
                            [pc |-> "append", dev |-> d, observed |-> state,
                             seen |-> pendingDevices, err |-> ""]]
            /\ UNCHANGED <<fcConfig, mounts>>
       ELSE LET r == addDevice(d, TRUE)
            IN  /\ fcConfig' = r.fcConfig
                /\ mounts' = r.mounts
                /\ adders' = [adders EXCEPT ![g] =
                                [pc |-> "done", dev |-> d, observed |-> state,
                                 seen |-> <<>>, err |-> r.err]]
    /\ UNCHANGED <<versionOutput, fcKernelParams, sandbox, sinceStart, end,
                   nStop, nClean, vmDir, state, pendingDevices, jailed, info,
                   connection, config, startup, applied, vmm, lastApi,
                   sawRunning, last, nStart, nHot, nFault>>

\* fc.pendingDevices = append(fc.pendingDevices, dev): the write of the slice
\* grown from the one this goroutine read, and the return
AddDeviceAppend(g) ==
    /\ adders[g].pc = "append"
    /\ LET q == Append(adders[g].seen,
                       [dev |-> adders[g].dev, devType |-> DevTypeOf(adders[g].dev)])
       IN  /\ pendingDevices' = q
           /\ applied' = IF Len(q) > Len(applied) THEN Append(applied, 0)
                         ELSE applied
    /\ adders' = [adders EXCEPT ![g].pc = "done"]
    /\ UNCHANGED <<versionOutput, fcKernelParams, sandbox, sinceStart, end,
                   nStop, nClean, vmDir, state, fcConfig, jailed, info,
                   connection, config, startup, environment, last, counters,
                   nFault>>

\* disconnect called while startSandbox runs
DisconnectConcurrent ==
    /\ pc \notin {"idle", "new"}
    /\ Lock
    /\ state' = notReady
    /\ UNCHANGED <<adders, versionOutput, fcKernelParams, sandbox, sinceStart,
                   end, nStop, nClean, vmDir, pendingDevices, fcConfig, jailed,
                   info, connection, config, startup, applied, environment,
                   last, counters, nFault>>

NextConcurrent ==
    \/ \E g \in Adders : \E d \in GoDevices(g) : AddDeviceRLock(g, d)
    \/ \E g \in Adders : AddDeviceAppend(g)
    \/ DisconnectConcurrent
    \/ Disconnect
    \/ \E mountOk \in BOOLEAN : FcInitConfigurationDrain(mountOk)
    \/ StartSteps

SpecConcurrent == Init /\ [][NextConcurrent]_vars

\* the entry of the queue a goroutine's call made
EntryOf(g) == [dev |-> adders[g].dev, devType |-> DevTypeOf(adders[g].dev)]

\* the goroutines whose call saw NotReady and has returned success
QueuedBy ==
    { g \in Adders : /\ adders[g].pc = "done" /\ adders[g].observed = notReady
                     /\ adders[g].err = "" }

\* C23 (as claimed): whatever the interleaving of concurrent addDevice calls
\* made while NotReady, every call that returned success has its device in
\* the queue afterwards, and the queue holds at least one entry per call.
C23_NoLostEntry ==
    /\ \A g \in QueuedBy :
          \E i \in 1..Len(pendingDevices) : pendingDevices[i] = EntryOf(g)
    /\ Len(pendingDevices) >= Cardinality(QueuedBy)

\* the boot configuration holds the network interface or the drive of d
InConfig(cfg, d) ==
    CASE d.type = "Endpoint" ->
            \E i \in 1..Len(cfg.NetworkInterfaces) :
                cfg.NetworkInterfaces[i].IfaceID = d.Name
      [] d.type = "BlockDrive" ->
            \E i \in 1..Len(cfg.Drives) : cfg.Drives[i].DriveID = d.ID
      [] OTHER -> TRUE

\* one round of the drain hands its entry to the builder and queues nothing
DrainApplies ==
    (pc = "drain" /\ drainIdx' = drainIdx + 1) =>
        /\ Len(pendingDevices') = Len(pendingDevices)
        /\ InConfig(fcConfig', rangePendingDevices(drainIdx).dev)

\* C27 (as claimed): with addDevice racing with startSandbox and disconnect,
\* a device whose call saw NotReady and returned success is in the queue when
\* the state becomes ConfigReady, the drain applies every entry it ranges
\* over instead of queueing it again, and a device whose call saw a later
\* state is applied directly.  Entries that two racing addDevice calls lose
\* between themselves are the matter of C23 and are left out here.
C27_NoDroppedDevice ==
    [][ /\ (state # cfReady /\ state' = cfReady) =>
              \A g \in Adders :
                 (adders[g].pc # "idle" /\ adders[g].observed = notReady) =>
                    /\ adders[g].pc = "done"
                    /\ C23_NoLostEntry =>
                          \E i \in 1..Len(pendingDevices) :
                              pendingDevices[i] = EntryOf(g)
        /\ DrainApplies
        /\ \A g \in Adders :
              (adders[g].pc = "idle" /\ adders'[g].pc = "done" /\ adders'[g].err = "")
                 => InConfig(fcConfig', adders'[g].dev) ]_vars

----------------------------------------------------------------------------
(* addDevice with payloads the builder refuses *)

\* payloads of the k-th call: block drives without a backing file, without an
\* id, and a complete one; a payload of an unknown type
BuilderDevices(k) ==
    { BlockDrive("blk" \o ToString(k), EmptyPath, k),
      BlockDrive("", HostFile, k),
      BlockDrive("blk" \o ToString(k), HostFile, k),
      UnknownDevice }

NextBuilder ==
    \/ \E d \in BuilderDevices(nAdd) : \E mountOk \in BOOLEAN : AddDevice(d, mountOk)
    \/ \E mountOk \in BOOLEAN : FcInitConfigurationDrain(mountOk)
    \/ Disconnect
    \/ StartSteps

SpecBuilder == Init /\ [][NextBuilder]_vars

\* C24: when addDevice is called in a state other than NotReady and the
\* builder fails (a block drive without source or without id, or whose bind
\* mount fails), the error is returned and the vmm state, the drives, network
\* interfaces and vsock of the configuration and the queue are unchanged; a
\* payload of an unknown kind returns success and changes nothing either.
C24_BuilderFailureChangesNothing ==
    [][ (nAdd' # nAdd /\ state # notReady) =>
          /\ (last'.arg.type = "BlockDrive"
                /\ (last'.arg.File = EmptyPath \/ last'.arg.ID = ""))
                => last'.err # ""
          /\ last'.arg.type = "Unknown" => last'.err = ""
          /\ (last'.err # "" \/ last'.arg.type = "Unknown")
                => /\ UNCHANGED <<state, pendingDevices>>
                   /\ fcConfig'.Drives = fcConfig.Drives
                   /\ fcConfig'.NetworkInterfaces = fcConfig.NetworkInterfaces
                   /\ fcConfig'.Vsock = fcConfig.Vsock ]_vars

\* the bind mount of a complete block drive failed in a ready VM
C24_Witness ==
    /\ last.op = "addDevice"
    /\ last.arg.type = "BlockDrive"
    /\ last.err = "bindMount failed"
    /\ state = vmReady
    /\ Len(fcConfig.Drives) = 1 + fcDiskPoolSize

----------------------------------------------------------------------------
(* Hotplug of devices of every kind *)

\* what the orchestrator hot-adds and hot-removes: block drives for the first
\* and the last index of the pool, an endpoint, the hybrid vsock, a payload of
\* an unknown type
HotplugPayloads ==
    { BlockDrive("data", HostFile, 0),
      BlockDrive("data", HostFile, fcDiskPoolSize - 1),
      Endpoint("eth0"), generateSocket, UnknownDevice }

NextHotplugKinds ==
    \/ \E d \in HotplugPayloads : \E mountOk, apiOk \in BOOLEAN :
          HotplugAddDevice(d, mountOk, apiOk)
    \/ \E d \in HotplugPayloads : \E apiOk \in BOOLEAN : HotplugRemoveDevice(d, apiOk)
    \/ Disconnect
    \/ StartSteps

SpecHotplugKinds == Init /\ [][NextHotplugKinds]_vars

\* C25: hotplugAddDevice and hotplugRemoveDevice called with a device that is
\* not a block device return an error, make no bind mount, no unmount and no
\* API call, and leave the vmm state and the boot configuration unchanged.
C25_UnsupportedHotplug ==
    [][ (nHot' # nHot /\ last'.arg.type # "BlockDrive") =>
          /\ last'.op \in {"hotplugAddDevice", "hotplugRemoveDevice"}
          /\ last'.err # ""
          /\ UNCHANGED <<mounts, lastApi, connection, vmm, state, fcConfig,
                         configFile, pendingDevices>> ]_vars

\* the hot-remove of an endpoint was refused while a jailed VM runs with the
\* mounts of its configuration in place
C25_Witness ==
    /\ last.op = "hotplugRemoveDevice"
    /\ last.arg.type = "Endpoint"
    /\ last.err # ""
    /\ state = vmReady
    /\ vmm.alive
    /\ mounts # EmptyBag

\* C26 (as claimed): SIGTERM and SIGKILL go only to the PID of a child this
\* controller has spawned: no signal of fcEnd is sent while the recorded PID
\* is 0, also not by a startSandbox that fails before the child was started.
C26_SignalsOnlyToChild ==
    end.signals # <<>> => info.PID # 0

\* C28 (as claimed): the drive ids of the Drives list of the boot
\* configuration are pairwise distinct in every reachable state, also after
\* startSandbox is called again on the same controller.
C28_DistinctDriveIDs ==
    \A i, j \in 1..Len(fcConfig.Drives) :
        i # j => fcConfig.Drives[i].DriveID # fcConfig.Drives[j].DriveID

====
